---- MODULE Spec2Model ----
(***************************************************************************)
(* The population table pipeline of the two script variants                *)
(*   src/tp_population_visualization.py   (pandas + NumPy)                 *)
(*   src/tp_population_visualization2.py  (Polars + JAX)                   *)
(* Each script is a straight line of statements over one table `df`; the   *)
(* model executes it statement group by statement group.                   *)
(*                                                                         *)
(* Values.  An optional number is a sequence: << >> is the missing value   *)
(* (NaN in pandas, null in Polars) and <<n>> is the number n.  A density   *)
(* is a ratio <<n, d>> in lowest terms: <<0, 0>> is the float NaN (0/0),   *)
(* <<1, 0>> is +inf (n/0, n > 0) and << >> is the missing value.  pandas   *)
(* has no NaN apart from the missing value, so 0/0 is << >> there.         *)
(* log10(x + 1) is injective on x >= 0, so the value log10(d + 1) is       *)
(* represented by <<d>>: two log-densities are equal exactly when the      *)
(* densities they were derived from are.                                   *)
(* Populations are counted in units of 2^29 persons, so that the 32-bit    *)
(* integers of JAX span Int32Span = 2^32 / 2^29 units.                     *)
(***************************************************************************)
EXTENDS Integers, Sequences, FiniteSets, TLC

VARIABLES lib, csv, pc, df, total, top10, byContinent, series, out, err, stages

vars == <<lib, csv, pc, df, total, top10, byContinent, series, out, err, stages>>

\* ------------------------------------------------------------------ bounds
MaxRows == 3

\* --------------------------------------------------------------- constants
Libs == {"pandas", "polars"}

Years == {1970, 1980, 1990, 2000, 2010, 2015, 2020, 2022}

YearList == <<1970, 1980, 1990, 2000, 2010, 2015, 2020, 2022>>

AbsorbingCode == "MAR"

AbsorbedCode == "ESH"

CountryName == "Morocco"

TopCount == 10

Int32Span == 8

Missing == << >>

NaN == <<0, 0>>

Inf == <<1, 0>>

\* ------------------------------------------------------------- arithmetic
RECURSIVE Gcd(_, _)
Gcd(a, b) == IF b = 0 THEN a ELSE Gcd(b, a % b)

Ratio(n, d) == <<n \div Gcd(n, d), d \div Gcd(n, d)>>

Min(a, b) == IF a <= b THEN a ELSE b

\* column / column of the table libraries (float division, element by element)
PolarsDivide(p, a) ==
    IF p = Missing \/ a = Missing THEN Missing
    ELSE IF a[1] = 0 THEN (IF p[1] = 0 THEN NaN ELSE Inf)
    ELSE Ratio(p[1], a[1])

PandasDivide(p, a) ==
    IF p = Missing \/ a = Missing THEN Missing
    ELSE IF a[1] = 0 THEN (IF p[1] = 0 THEN Missing ELSE Inf)
    ELSE Ratio(p[1], a[1])

Divide(l, p, a) == IF l = "pandas" THEN PandasDivide(p, a) ELSE PolarsDivide(p, a)

\* .sum() of a column: missing values are skipped, an empty sum is 0
RECURSIVE SumPresent(_)
SumPresent(s) ==
    IF s = << >> THEN 0
    ELSE (IF Head(s) = Missing THEN 0 ELSE Head(s)[1]) + SumPresent(Tail(s))

\* jnp.array / jnp.sum hold 32-bit integers: the value modulo 2^32, signed
Int32(n) == ((n + Int32Span \div 2) % Int32Span) - Int32Span \div 2

\* ------------------------------------------------------------- input rows
Pops(past, p22) == [y \in Years |-> IF y = 2022 THEN p22 ELSE past]

Row(code, country, continent, past, p22, area, density) ==
    [code |-> code, country |-> country, continent |-> continent,
     pop |-> Pops(past, p22), area |-> area, density |-> density]

Rows ==
    { Row("MAR", "Morocco", "Africa", <<1>>, <<1>>, <<2>>, Missing),
      Row("MAR", "Morocco", "Africa", <<1>>, <<2>>, <<1>>, <<5, 1>>),
      Row("ESH", "Western Sahara", "Africa", <<0>>, <<1>>, <<1>>, Missing),
      Row("ESH", "Western Sahara", "Africa", <<1>>, <<1>>, <<2>>, <<5, 1>>),
      Row("ESH", "Western Sahara", "Africa", Missing, Missing, <<0>>, Missing),
      Row("FRA", "France", "Europe", <<2>>, <<2>>, <<1>>, Missing),
      Row("DZA", "Algeria", "Africa", <<1>>, <<1>>, <<1>>, <<5, 1>>),
      Row("ATA", "Antarctica", "", <<0>>, <<1>>, <<2>>, Missing),
      Row("VAT", "Vatican City", "Europe", Missing, Missing, Missing, Missing),
      Row("BVT", "Bouvet Island", "", <<0>>, <<0>>, <<0>>, Missing) }

Tables == UNION { [1..n -> Rows] : n \in 0..MaxRows }

\* ------------------------------------------------------- table operations
\* df["Density_(per_km2)"].fillna(df["2022_Population"] / df["Area_(km2)"])
BackfillDensity(l, t) ==
    [i \in 1..Len(t) |->
        [t[i] EXCEPT !.density =
            IF @ = Missing THEN Divide(l, t[i].pop[2022], t[i].area) ELSE @]]

\* log10(d + 1); a missing density gives a missing log-density
Log10P1(d) == IF d = Missing THEN Missing ELSE <<d>>

WithLogDensity(r) ==
    [code |-> r.code, country |-> r.country, continent |-> r.continent,
     pop |-> r.pop, area |-> r.area, density |-> r.density,
     log_density |-> Log10P1(r.density)]

\* df["Log_Density"] = log10(df["Density_(per_km2)"] + 1)
DeriveLogDensity(t) == [i \in 1..Len(t) |-> WithLogDensity(t[i])]

MoroccoMask(r) == r.code = AbsorbingCode \/ r.code = AbsorbedCode

IsAbsorbing(r) == r.code = AbsorbingCode

NotAbsorbed(r) == r.code # AbsorbedCode

\* a merge that forgets the absorbed rows when it sums
MoroccoTotalsAbsorbingOnly(t) ==
    LET c == SelectSeq(t, IsAbsorbing)
    IN  [pop  |-> [y \in Years |-> SumPresent([i \in 1..Len(c) |-> c[i].pop[y]])],
         area |-> SumPresent([i \in 1..Len(c) |-> c[i].area])]

\* morocco_totals = df[morocco_mask][pop_cols].sum()
MoroccoTotals(t) ==
    LET c == SelectSeq(t, MoroccoMask)
    IN  [pop  |-> [y \in Years |-> SumPresent([i \in 1..Len(c) |-> c[i].pop[y]])],
         area |-> SumPresent([i \in 1..Len(c) |-> c[i].area])]

\* the rows with CCA3 == "MAR" take the totals in the nine summed columns
UpdateAbsorbing(t, tot) ==
    [i \in 1..Len(t) |->
        IF IsAbsorbing(t[i])
        THEN [t[i] EXCEPT !.pop = [y \in Years |-> <<tot.pop[y]>>],
                          !.area = <<tot.area>>]
        ELSE t[i]]

\* a density assignment that lost its row mask
SetDensityEveryRow(t, d) == [i \in 1..Len(t) |-> [t[i] EXCEPT !.density = d]]

\* the rows with CCA3 == "MAR" take the density d
SetAbsorbingDensity(t, d) ==
    [i \in 1..Len(t) |-> IF IsAbsorbing(t[i]) THEN [t[i] EXCEPT !.density = d] ELSE t[i]]

\* df = df[df["CCA3"] != "ESH"]
RemoveAbsorbed(t) == SelectSeq(t, NotAbsorbed)

\* pandas: the density is a NumPy scalar division, which never raises
\* Polars: the density is the Python division morocco_pop / morocco_area
MergeDensity(l, tot) ==
    IF l = "pandas" THEN PandasDivide(<<tot.pop[2022]>>, <<tot.area>>)
    ELSE Ratio(tot.pop[2022], tot.area)

\* Python raises ZeroDivisionError on morocco_pop / morocco_area
MergeRaises(l, t) == l = "polars" /\ MoroccoTotals(t).area = 0

MergeTerritories(l, t) ==
    LET tot == MoroccoTotals(t)
    IN  RemoveAbsorbed(SetAbsorbingDensity(UpdateAbsorbing(t, tot), MergeDensity(l, tot)))

\* ------------------------------------------------------------- aggregates
Pop2022(t) == [i \in 1..Len(t) |-> t[i].pop[2022]]

\* pandas: np.sum(df["2022_Population"]); Polars: jnp.sum over the non-null values
WorldTotal(l, t) ==
    IF l = "pandas" THEN SumPresent(Pop2022(t)) ELSE Int32(SumPresent(Pop2022(t)))

Perms(n) == { p \in [1..n -> 1..n] : \A i, j \in 1..n : p[i] = p[j] => i = j }

\* a sort that lost ascending = False / descending = True
AscOrdered(l, a, b) ==
    IF a = Missing /\ b = Missing THEN TRUE
    ELSE IF a = Missing THEN l = "polars"
    ELSE IF b = Missing THEN l = "pandas"
    ELSE a[1] <= b[1]

\* a before b is an order a descending sort may leave them in
\* pandas: na_position = "last"; Polars: nulls_last = False
DescOrdered(l, a, b) ==
    IF a = Missing /\ b = Missing THEN TRUE
    ELSE IF a = Missing THEN l = "polars"
    ELSE IF b = Missing THEN l = "pandas"
    ELSE a[1] >= b[1]

\* the results a descending sort on 2022_Population may give: neither library's
\* default sort is stable, so rows with equal keys come in any order
SortOutcomes(l, t) ==
    { [i \in 1..Len(t) |-> t[p[i]]] : p \in
        { q \in Perms(Len(t)) :
            \A i, j \in 1..Len(t) :
                i < j => DescOrdered(l, t[q[i]].pop[2022], t[q[j]].pop[2022]) } }

\* .head(n)
HeadN(s, n) == SubSeq(s, 1, Min(n, Len(s)))

ContinentNames == <<"Africa", "Europe">>

InContinent(t, c) ==
    SumPresent([i \in 1..Len(t) |-> IF t[i].continent = c THEN t[i].pop[2022] ELSE Missing])

Continents(t) == { t[i].continent : i \in 1..Len(t) }

\* df.groupby("Continent")["2022_Population"].sum(): rows without a continent are
\* dropped, the groups come sorted by key
PandasByContinent(t) ==
    LET keys == SelectSeq(ContinentNames, LAMBDA c : c \in Continents(t))
    IN  [i \in 1..Len(keys) |-> <<keys[i], InContinent(t, keys[i])>>]

\* df.group_by("Continent").agg(sum).sort(descending): null is a group of its own,
\* the groups come in non-increasing order of their sum, ties in any order
PolarsByContinent(t) ==
    LET groups == { <<c, InContinent(t, c)>> : c \in Continents(t) }
        n == Cardinality(groups)
    IN  { s \in [1..n -> groups] :
            /\ \A i, j \in 1..n : s[i] = s[j] => i = j
            /\ \A i, j \in 1..n : i < j => s[i][2] >= s[j][2] }

ByContinentOutcomes(l, t) ==
    IF l = "pandas" THEN {PandasByContinent(t)} ELSE PolarsByContinent(t)

NamedCountry(r) == r.country = CountryName

\* df[df["Country"] == "Morocco"][year columns], first row
TimeSeries(t) ==
    LET m == SelectSeq(t, NamedCountry)
    IN  [i \in 1..Len(YearList) |-> m[1].pop[YearList[i]]]

TimeSeriesRaises(t) == SelectSeq(t, NamedCountry) = << >>

\* ----------------------------------------------------------- the scripts
\* a script that computes the world total before it merges
ProgramTotalBeforeMerge(l) ==
    IF l = "pandas"
    THEN <<"Load", "BackfillDensity", "DeriveLogDensity", "WorldTotal",
           "MergeTerritories", "BackfillDensity", "Preview", "TopN", "ByContinent",
           "Render", "TimeSeries", "Predict">>
    ELSE <<"Load", "BackfillDensity", "DeriveLogDensity", "WorldTotal",
           "MergeTerritories", "DeriveLogDensity", "Preview", "TopN", "ByContinent",
           "Render", "TimeSeries", "Predict">>

\* the statements of each script, in program order
Program(l) ==
    IF l = "pandas"
    THEN <<"Load", "BackfillDensity", "DeriveLogDensity", "MergeTerritories",
           "BackfillDensity", "Preview", "WorldTotal", "TopN", "ByContinent",
           "Render", "TimeSeries", "Predict">>
    ELSE <<"Load", "BackfillDensity", "DeriveLogDensity", "MergeTerritories",
           "DeriveLogDensity", "Preview", "WorldTotal", "TopN", "ByContinent",
           "Render", "TimeSeries", "Predict">>

Running == err = "none" /\ pc <= Len(Program(lib))

At(step) == Running /\ Program(lib)[pc] = step

Advance(step) == /\ pc' = pc + 1
                 /\ stages' = Append(stages, step)
                 /\ err' = err

Abort(e) == /\ err' = e
            /\ pc' = pc
            /\ stages' = stages

Init ==
    /\ lib \in Libs
    /\ csv \in Tables
    /\ pc = 1
    /\ df = << >>
    /\ total = Missing
    /\ top10 = << >>
    /\ byContinent = << >>
    /\ series = << >>
    /\ out = << >>
    /\ err = "none"
    /\ stages = << >>

Load ==
    /\ At("Load")
    /\ df' = csv
    /\ Advance("Load")
    /\ UNCHANGED <<lib, csv, total, top10, byContinent, series, out>>

LoadFails ==
    /\ At("Load")
    /\ Abort("LoadError")
    /\ UNCHANGED <<lib, csv, df, total, top10, byContinent, series, out>>

Backfill ==
    /\ At("BackfillDensity")
    /\ df' = BackfillDensity(lib, df)
    /\ Advance("BackfillDensity")
    /\ UNCHANGED <<lib, csv, total, top10, byContinent, series, out>>

Derive ==
    /\ At("DeriveLogDensity")
    /\ df' = DeriveLogDensity(df)
    /\ Advance("DeriveLogDensity")
    /\ UNCHANGED <<lib, csv, total, top10, byContinent, series, out>>

Merge ==
    /\ At("MergeTerritories")
    /\ ~MergeRaises(lib, df)
    /\ df' = MergeTerritories(lib, df)
    /\ Advance("MergeTerritories")
    /\ UNCHANGED <<lib, csv, total, top10, byContinent, series, out>>

MergeFails ==
    /\ At("MergeTerritories")
    /\ MergeRaises(lib, df)
    /\ df' = UpdateAbsorbing(df, MoroccoTotals(df))
    /\ Abort("ZeroDivisionError")
    /\ UNCHANGED <<lib, csv, total, top10, byContinent, series, out>>

Preview ==
    /\ At("Preview")
    /\ out' = Append(out, "preview")
    /\ Advance("Preview")
    /\ UNCHANGED <<lib, csv, df, total, top10, byContinent, series>>

Total ==
    /\ At("WorldTotal")
    /\ total' = <<WorldTotal(lib, df)>>
    /\ out' = Append(out, "total")
    /\ Advance("WorldTotal")
    /\ UNCHANGED <<lib, csv, df, top10, byContinent, series>>

TopN ==
    /\ At("TopN")
    /\ \E s \in SortOutcomes(lib, df) : top10' = HeadN(s, TopCount)
    /\ out' = Append(out, "top10")
    /\ Advance("TopN")
    /\ UNCHANGED <<lib, csv, df, total, byContinent, series>>

ByContinent ==
    /\ At("ByContinent")
    /\ byContinent' \in ByContinentOutcomes(lib, df)
    /\ Advance("ByContinent")
    /\ UNCHANGED <<lib, csv, df, total, top10, series, out>>

Render ==
    /\ At("Render")
    /\ out' = out \o <<"fig_population", "fig_density", "fig_continent">>
    /\ Advance("Render")
    /\ UNCHANGED <<lib, csv, df, total, top10, byContinent, series>>

Series ==
    /\ At("TimeSeries")
    /\ ~TimeSeriesRaises(df)
    /\ series' = TimeSeries(df)
    /\ Advance("TimeSeries")
    /\ UNCHANGED <<lib, csv, df, total, top10, byContinent, out>>

SeriesFails ==
    /\ At("TimeSeries")
    /\ TimeSeriesRaises(df)
    /\ Abort("IndexError")
    /\ UNCHANGED <<lib, csv, df, total, top10, byContinent, series, out>>

Predict ==
    /\ At("Predict")
    /\ out' = out \o <<"fig_growth", "fig_cities", "prediction">>
    /\ Advance("Predict")
    /\ UNCHANGED <<lib, csv, df, total, top10, byContinent, series>>

Next ==
    \/ Load \/ LoadFails \/ Backfill \/ Derive \/ Merge \/ MergeFails
    \/ Preview \/ Total \/ TopN \/ ByContinent \/ Render
    \/ Series \/ SeriesFails \/ Predict

Spec == Init /\ [][Next]_vars

\* ================================================================ claims
Done(step) == \E i \in 1..Len(stages) : stages[i] = step

CountCode(t, c) == Cardinality({ i \in 1..Len(t) : t[i].code = c })

OneOfEach(t) == CountCode(t, "MAR") = 1 /\ CountCode(t, "ESH") = 1

RowOf(t, c) == t[CHOOSE i \in 1..Len(t) : t[i].code = c]

\* a record as the data model types it: every population present, area > 0
WellFormed(r) ==
    /\ \A y \in Years : r.pop[y] # << >>
    /\ r.area # << >>
    /\ r.area[1] > 0

\* the step from pc to pc' is a merge that ran to its end
MergeStep == At("MergeTerritories") /\ pc' = pc + 1

\* the first aggregate statement of the running script
FirstAggregate == CHOOSE i \in 1..Len(Program(lib)) : Program(lib)[i] = "Preview"

Ready == pc >= FirstAggregate

MergeAt(l) == CHOOSE i \in 1..Len(Program(l)) : Program(l)[i] = "MergeTerritories"

TableSteps == {"Load", "BackfillDensity", "DeriveLogDensity", "MergeTerritories"}

\* C1: when the table holds exactly one MAR and one ESH record (records as the data
\* model types them), the merge leaves one record fewer, and the one MAR record that
\* remains has, for each of the eight years and for the area, the sum of the two
\* records' values, and as density the summed 2022 population over the summed area.
C1_MergeSums ==
    [][ (MergeStep /\ OneOfEach(df)
            /\ WellFormed(RowOf(df, "MAR")) /\ WellFormed(RowOf(df, "ESH")))
        => LET a == RowOf(df, "MAR")
               b == RowOf(df, "ESH")
           IN  /\ Len(df') = Len(df) - 1
               /\ CountCode(df', "MAR") = 1
               /\ CountCode(df', "ESH") = 0
               /\ \A y \in Years :
                    RowOf(df', "MAR").pop[y] = <<a.pop[y][1] + b.pop[y][1]>>
               /\ RowOf(df', "MAR").area = <<a.area[1] + b.area[1]>>
               /\ RowOf(df', "MAR").density =
                    Ratio(a.pop[2022][1] + b.pop[2022][1], a.area[1] + b.area[1]) ]_vars

\* a merge of one MAR and one ESH record has just run, next to a third record, and
\* the merged density is neither record's density from before the merge
C1_Witness ==
    /\ stages # << >>
    /\ stages[Len(stages)] = "MergeTerritories"
    /\ OneOfEach(csv)
    /\ Len(csv) = 3
    /\ Len(df) = 2
    /\ RowOf(df, "MAR").density = <<2, 3>>
    /\ RowOf(df, "MAR").pop[2022] = <<2>>

\* C2: at Ready every record's log_density is log10(density_per_km2 + 1) of the
\* density the record has now.
C2_LogDensityCurrent ==
    Ready => \A i \in 1..Len(df) :
                df[i].log_density =
                    (IF df[i].density = << >> THEN << >> ELSE <<df[i].density>>)

\* C3: once the backfill has run every record has a density, and right after it a
\* record has its source density when the source gave one and population[2022] / area
\* otherwise.
C3_DensityNonNull ==
    /\ Done("BackfillDensity") => \A i \in 1..Len(df) : df[i].density # << >>
    /\ stages = <<"Load", "BackfillDensity">> =>
          \A i \in 1..Len(df) :
              /\ csv[i].density # << >> => df[i].density = csv[i].density
              /\ (csv[i].density = << >> /\ WellFormed(csv[i])) =>
                    df[i].density = Ratio(csv[i].pop[2022][1], csv[i].area[1])

RECURSIVE SumValues(_)
SumValues(s) == IF s = << >> THEN 0 ELSE Head(s)[2] + SumValues(Tail(s))

\* C4: the per-continent sums of the 2022 population add up to the world total.
C4_ContinentsSumToTotal ==
    Done("ByContinent") => SumValues(byContinent) = total[1]

C6_MergeRejects ==
    ~OneOfEach(csv) => (~Done("MergeTerritories") /\ ~Ready)

\* C7: a run that ended in an error has emitted nothing.
C7_NoPartialOutput ==
    err # "none" => out = << >>

IsPrefix(s, t) == Len(s) <= Len(t) /\ s = SubSeq(t, 1, Len(s))

TableStages == SelectSeq(stages, LAMBDA x : x \in TableSteps)

OtherLib == IF lib = "pandas" THEN "polars" ELSE "pandas"

ApplyTableStep(l, step, t) ==
    CASE step = "BackfillDensity" -> BackfillDensity(l, t)
      [] step = "DeriveLogDensity" -> DeriveLogDensity(t)
      [] step = "MergeTerritories" -> MergeTerritories(l, t)
      [] OTHER -> t

\* the table of script l after its first n statements, run on the input t
RECURSIVE TableAfter(_, _, _)
TableAfter(l, t, n) ==
    IF n = 0 THEN t ELSE ApplyTableStep(l, Program(l)[n], TableAfter(l, t, n - 1))

AsMapping(s) == { <<s[i][1], s[i][2]>> : i \in 1..Len(s) }

\* C9: a run that went through its aggregates has the table, the world total, the
\* rankings and the per-continent sums that the other variant computes from the
\* same input.
C9_VariantsAgree ==
    Done("ByContinent") =>
        LET o == OtherLib
            t == TableAfter(o, csv, FirstAggregate - 1)
        IN  /\ ~MergeRaises(o, TableAfter(o, csv, MergeAt(o) - 1))
            /\ df = t
            /\ total = <<WorldTotal(o, t)>>
            /\ top10 \in { HeadN(s, TopCount) : s \in SortOutcomes(o, t) }
            /\ \E b \in ByContinentOutcomes(o, t) : AsMapping(b) = AsMapping(byContinent)

\* C10: the merge leaves every record that is neither MAR nor ESH as it was and where
\* it was among the records that remain, and a MAR record keeps its code, country and
\* continent.
C10_MergeFrame ==
    [][ MergeStep =>
          LET keep == SelectSeq(df, LAMBDA r : r.code # "ESH")
          IN  /\ Len(df') = Len(keep)
              /\ \A i \in 1..Len(keep) :
                   IF keep[i].code = "MAR"
                   THEN /\ df'[i].code = "MAR"
                        /\ df'[i].country = keep[i].country
                        /\ df'[i].continent = keep[i].continent
                   ELSE df'[i] = keep[i] ]_vars

\* a merge of MAR and ESH has just run with another record ahead of them, which is
\* still first and still has its own density
C10_Witness ==
    /\ stages # << >>
    /\ stages[Len(stages)] = "MergeTerritories"
    /\ Len(csv) = 3
    /\ csv[1].code = "FRA"
    /\ csv[2].code = "ESH"
    /\ csv[3].code = "MAR"
    /\ Len(df) = 2
    /\ df[1].code = "FRA"
    /\ df[1].density = <<2, 1>>
    /\ df[2].code = "MAR"
    /\ df[2].country = "Morocco"

====
